---- MODULE Spec2Model ----
(***************************************************************************)
(* A model of the MobilizeAmerica client of parsons_utilities               *)
(* (src/parsons_utilities/mobilize_america.py): the construction of the     *)
(* client, the two routes get_organizations and get_events_auth, the        *)
(* paginated _request helper they share, the date-filter parser             *)
(* _time_parse, and the flattening of the fetched events.                   *)
(*                                                                         *)
(* One behaviour is one client object and one call of a route on it.  The   *)
(* HTTP layer is the environment: every response envelope is chosen by the  *)
(* server when the request is issued.  `requests` and `responses` are the   *)
(* transcript of the HTTP exchange.                                         *)
(***************************************************************************)
EXTENDS Integers, Sequences, FiniteSets, TLC

VARIABLES
    api_key,      \* self.api_key, as __init__ left it
    pc,           \* position of the call: idle, request, loop, returned, done
    call,         \* the route called and the arguments it validated
    url,          \* _request's local `url`
    args,         \* _request's local `args`
    header,       \* _request's local `header`
    json,         \* _request's local `json`, the accumulator
    requests,     \* HTTP requests issued so far, in order
    responses,    \* the envelopes the server answered with, in order
    outcome       \* what the call gave its caller: nothing yet, a value or an exception

vars == <<api_key, pc, call, url, args, header, json, requests, responses, outcome>>

----------------------------------------------------------------------------
(* Bounds of the model. *)

MaxPages == 3       \* the server's chain of pages has at most this many pages
MaxRecords == 2     \* records the server holds, over all its pages
MaxSlots == 2       \* timeslots of one event
MaxTimeLen == 2     \* characters of a date-filter string
MaxTimeslots == 2   \* largest max_timeslots a caller passes

----------------------------------------------------------------------------
(* Python values.  None and the absence of a value are the empty tuple; a   *)
(* present value v is <<v>>, so that None, '' and a non-empty string stay   *)
(* three different things.                                                  *)

None == <<>>
Some(v) == <<v>>
IsNone(o) == o = <<>>

\* Python truthiness of an optional string: None and '' are falsy.
Truthy(o) == o # <<>> /\ o[1] # ""

\* Python's `a or b`.
PyOr(a, b) == IF Truthy(a) THEN a ELSE b

\* JSON values as they sit in a record or a table cell.
JNull == [t |-> "null", v |-> 0]
JInt(n) == [t |-> "int", v |-> n]
JStr(s) == [t |-> "str", v |-> s]
JDict(d) == [t |-> "dict", v |-> d]
JList(s) == [t |-> "list", v |-> s]

SeqsUpTo(S, n) == UNION {[1..k -> S] : k \in 0..n}

RECURSIVE Concat(_)
Concat(ss) == IF ss = <<>> THEN <<>> ELSE Head(ss) \o Concat(Tail(ss))


----------------------------------------------------------------------------
(* The events the server holds.  An event is a JSON object with an id, two  *)
(* nested objects (the location holds the list of address lines) and a      *)
(* list of timeslots.                                                       *)

Timeslot(j) == JDict([start |-> JInt(j)])

Event(n) ==
    [id |-> JInt(n + 1),
     sponsor |-> JDict([name |-> JStr("org")]),
     location |-> JDict([city |-> JStr("X"), zip |-> JStr("Y"),
                         address_lines |-> JList(<<JStr("123 Main St"), JStr("Apt 4")>>)]),
     timeslots |-> JList([j \in 1..n |-> Timeslot(j)])]

\* The events the server holds: one without timeslots, one with a single
\* timeslot and one with MaxSlots of them.
Records == {Event(n) : n \in {0, 1, MaxSlots}}

\* The cursor URL the server hands out on each of its pages.
CursorUrls == <<"cursor1", "cursor2", "cursor3", "cursor4", "cursor5">>

\* Values of the `next` of the server's page number `page`: null, the empty
\* string or, while the server has more pages, the cursor URL of the next.
Nexts(page) ==
    {None, Some("")} \cup (IF page < MaxPages THEN {Some(CursorUrls[page])} ELSE {})

\* The envelopes the server may answer with on its page number `page` when
\* it has `room` records left to serve.  An error envelope carries the
\* `error` key, alone or beside an empty `data` and a `next`.
Envelopes(page, room) ==
    {[keys |-> {"data", "next"}, data |-> d, next |-> n, error |-> ""] :
        d \in SeqsUpTo(Records, room), n \in Nexts(page)}
    \cup {[keys |-> {"error"}, data |-> <<>>, next |-> None, error |-> "boom"]}
    \cup {[keys |-> {"data", "next", "error"}, data |-> <<>>, next |-> n, error |-> "boom"] :
            n \in Nexts(page)}

\* r, the response _request holds.
r == responses[Len(responses)]

----------------------------------------------------------------------------
(* __init__ *)

ApiKeyArgs == {None, Some(""), Some("key")}
EnvKeys == {None, Some(""), Some("key")}

\* self.api_key = api_key or os.environ.get('MOBILIZE_AMERICA_API_KEY')
InitApiKey(arg, env) == PyOr(arg, env)

\* The attributes an instance has: those __init__ sets and the methods.
Attributes ==
    {"uri", "api_key", "_request", "_time_parse", "get_organizations", "get_events_auth"}

----------------------------------------------------------------------------
(* Text handled character by character: a date-filter string is a sequence  *)
(* of characters, where "d" stands for a character of a date.               *)

TimeChars == {"<", ">", "=", "d"}

\* Python truthiness of an optional text: None and '' are falsy.
TruthyText(o) == o # <<>> /\ Len(o[1]) > 0

\* The length of the match of the pattern '<=|<|>=|>' at position i of s, or
\* 0 when it does not match there.  The alternatives are tried in order, so
\* '<=' wins over '<' and '>=' over '>'.
MatchAt(s, i) ==
    IF s[i] \in {"<", ">"}
    THEN IF i < Len(s) /\ s[i + 1] = "=" THEN 2 ELSE 1
    ELSE 0

\* re.sub('<=|<|>=|>', '', s): s without the matches, scanned left to right.
RECURSIVE ReSubFrom(_, _)
ReSubFrom(s, i) ==
    IF i > Len(s) THEN <<>>
    ELSE IF MatchAt(s, i) > 0 THEN ReSubFrom(s, i + MatchAt(s, i))
    ELSE <<s[i]>> \o ReSubFrom(s, i + 1)

ReSub(s) == ReSubFrom(s, 1)

\* re.search('<=|<|>=|>', s): the leftmost match, or None.
ReSearch(s) ==
    LET hits == {i \in 1..Len(s) : MatchAt(s, i) > 0} IN
    IF hits = {} THEN None
    ELSE LET i == CHOOSE k \in hits : \A m \in hits : k <= m
         IN Some(SubSeq(s, i, i + MatchAt(s, i) - 1))

\* The result of a call that may raise.
Ok(v) == [ok |-> TRUE, val |-> v, exc |-> ""]
Err(exc) == [ok |-> FALSE, val |-> None, exc |-> exc]

\* parsons_utilities.datetime.date_to_timestamp: None for no date, the
\* timestamp of a date text, and an error for a text that is no date.
date_to_timestamp(value) ==
    IF ~TruthyText(value) THEN Ok(None)
    ELSE IF \A i \in 1..Len(value[1]) : value[1][i] = "d"
         THEN Ok(Some([timestamp_of |-> value[1]]))
         ELSE Err("ParserError")

\* The translation table of _time_parse.
trans == << <<(<<">", "=">>), "gte_">>, <<(<<">">>), "gt_">>,
           <<(<<"<", "=">>), "lte_">>, <<(<<"<">>), "lt_">> >>

\* _time_parse(time_arg): the filter value sent to the server.
_time_parse(time_arg) ==
    IF TruthyText(time_arg)
    THEN LET time == ReSub(time_arg[1])
             stamp == date_to_timestamp(Some(time))
             found == ReSearch(time_arg[1])
         IN IF ~stamp.ok THEN Err(stamp.exc)
            ELSE IF IsNone(found) THEN Err("AttributeError")
            ELSE LET time_filter == found[1]
                     hits == {i \in 1..Len(trans) : time_filter = trans[i][1]}
                 IN IF hits # {}
                    THEN LET i == CHOOSE k \in hits : \A m \in hits : k <= m
                         IN Ok(Some([prefix |-> trans[i][2], time |-> stamp.val]))
                    ELSE Err("ValueError: Invalid time operator")
    ELSE Ok(time_arg)

----------------------------------------------------------------------------
(* Tables (parsons_utilities.table.Table).  A table is a set of columns and *)
(* a sequence of rows, each row a function from the columns to cells.  A    *)
(* column name is kept in its parts: `timeslots_0_start` is the field       *)
(* timeslots, position 0, key start.                                        *)

Col(field, pos, key) == [field |-> field, pos |-> pos, key |-> key]
Name(field) == Col(field, None, "")

\* <column>_<key>, the name of a lifted child key under its parent's name.
Prefixed(column, key) == [column EXCEPT !.key = key]

\* <column>_<i>, the name of position i of an unpacked list.
Positional(column, i) == [column EXCEPT !.pos = Some(i)]

\* Table(lst): one row per dict, one column per key.
Table(lst) ==
    LET cols == UNION {{Name(k) : k \in DOMAIN lst[i]} : i \in 1..Len(lst)} IN
    [cols |-> cols,
     rows |-> [i \in 1..Len(lst) |->
                [c \in cols |-> IF c.field \in DOMAIN lst[i] THEN lst[i][c.field] ELSE JNull]]]

num_rows(tbl) == Len(tbl.rows)

\* The keys of the dicts found in a column.
DictKeys(tbl, column) ==
    UNION {IF tbl.rows[i][column].t = "dict" THEN DOMAIN tbl.rows[i][column].v ELSE {} :
             i \in 1..Len(tbl.rows)}

\* tbl.unpack_dict(column, prepend=...): every key of the nested object
\* becomes a column, under the parent's name when prepend is set; the
\* nested column itself is dropped.  A column the table does not have is
\* left alone.
unpack_dict(tbl, column, prepend) ==
    IF column \notin tbl.cols THEN tbl
    ELSE LET keys == DictKeys(tbl, column)
             lifted(k) == IF prepend THEN Prefixed(column, k) ELSE Name(k)
             new == {lifted(k) : k \in keys}
             cols == (tbl.cols \ {column}) \cup new
             cell(row, c) ==
                IF c \in new
                THEN LET k == CHOOSE k \in keys : lifted(k) = c IN
                     IF row[column].t = "dict" /\ k \in DOMAIN row[column].v
                     THEN row[column].v[k] ELSE JNull
                ELSE row[c]
         IN [cols |-> cols,
             rows |-> [i \in 1..Len(tbl.rows) |-> [c \in cols |-> cell(tbl.rows[i], c)]]]

\* The elements of a cell taken as a list.
AsList(cell) == IF cell.t = "list" THEN cell.v ELSE <<cell>>

MaxOf(S) == IF S = {} THEN 0 ELSE CHOOSE m \in S : \A x \in S : x <= m

\* tbl.unpack_list(column, replace=True, max_columns=...): the list becomes
\* the columns <column>_0, <column>_1, ...: as many as max_columns when it
\* is set, else as many as the longest list has elements.  Elements past
\* the last column are dropped, missing elements are null.
unpack_list(tbl, column, max_columns) ==
    IF column \notin tbl.cols THEN tbl
    ELSE LET longest == MaxOf({Len(AsList(tbl.rows[i][column])) : i \in 1..Len(tbl.rows)})
             count == IF IsNone(max_columns) THEN longest ELSE max_columns[1]
             new == {Positional(column, i) : i \in 0..(count - 1)}
             cols == (tbl.cols \ {column}) \cup new
             cell(row, c) ==
                IF c \in new
                THEN LET items == AsList(row[column]) IN
                     IF c.pos[1] < Len(items) THEN items[c.pos[1] + 1] ELSE JNull
                ELSE row[c]
         IN [cols |-> cols,
             rows |-> [i \in 1..Len(tbl.rows) |-> [c \in cols |-> cell(tbl.rows[i], c)]]]

\* The rows of the child table that one parent row gives: one per element
\* of its list, the parent's key under its new name beside the element's
\* own fields.
ChildRows(row, key, column, renamed, cols) ==
    LET items == AsList(row[column]) IN
    [j \in 1..Len(items) |->
        [c \in cols |->
            IF c = renamed THEN row[key]
            ELSE IF items[j].t = "dict" /\ c.field \in DOMAIN items[j].v
                 THEN items[j].v[c.field] ELSE JNull]]

\* tbl.long_table([key], column, {key: renamed}): the child table, and the
\* table itself with the exploded column removed.
long_table(tbl, key, column, renamed) ==
    LET elementKeys ==
            UNION {UNION {IF AsList(tbl.rows[i][column])[j].t = "dict"
                          THEN DOMAIN AsList(tbl.rows[i][column])[j].v ELSE {} :
                            j \in 1..Len(AsList(tbl.rows[i][column]))} :
                     i \in 1..Len(tbl.rows)}
        childCols == {renamed} \cup {Name(k) : k \in elementKeys}
        parentCols == tbl.cols \ {column}
    IN [parent |-> [cols |-> parentCols,
                    rows |-> [i \in 1..Len(tbl.rows) |->
                                [c \in parentCols |-> tbl.rows[i][c]]]],
        child |-> [cols |-> childCols,
                   rows |-> Concat([i \in 1..Len(tbl.rows) |->
                                ChildRows(tbl.rows[i], key, column, renamed, childCols)])]]

\* ' '.join(v): the elements with one space between each two.
RECURSIVE JoinParts(_)
JoinParts(items) ==
    IF items = <<>> THEN <<>>
    ELSE IF Len(items) = 1 THEN <<items[1].v>>
    ELSE <<items[1].v, " ">> \o JoinParts(Tail(items))

Join(cell) == [t |-> "joined", v |-> JoinParts(cell.v)]

\* petl.convert(tbl.table, column, lambda v: ' '.join(v)): every cell of the
\* column joined into one text.
ConvertJoin(tbl, column) ==
    [cols |-> tbl.cols,
     rows |-> [i \in 1..Len(tbl.rows) |->
                [c \in tbl.cols |->
                    IF c = column THEN Join(tbl.rows[i][c]) ELSE tbl.rows[i][c]]]]

\* A cell as the CSV writer prints it and the CSV reader gives it back: a
\* text, the empty text for None.
CsvText(cell) == IF cell.t = "null" THEN JStr("") ELSE [t |-> "text", v |-> cell]

\* tbl.to_csv(), fromcsv, tojson and json.load: the rows as a JSON array of
\* objects whose values are the texts read back from the CSV file.
CsvToJson(tbl) ==
    [i \in 1..Len(tbl.rows) |-> [c \in tbl.cols |-> CsvText(tbl.rows[i][c])]]

----------------------------------------------------------------------------
(* The state before any call, and how a call ends. *)

NoCall == [route |-> "none"]
NoOutcome == [kind |-> "none"]
Raise(exc) == [kind |-> "raise", exc |-> exc]
Return(v) == [kind |-> "return", value |-> v]

Init ==
    /\ \E arg \in ApiKeyArgs, env \in EnvKeys : api_key = InitApiKey(arg, env)
    /\ pc = "idle"
    /\ call = NoCall
    /\ url = ""
    /\ args = None
    /\ header = None
    /\ json = <<>>
    /\ requests = <<>>
    /\ responses = <<>>
    /\ outcome = NoOutcome

----------------------------------------------------------------------------
(* The routes, up to their call of _request. *)

valid_output_formats == {"Parsons", "JSON"}
OutputFormats == {"Parsons", "JSON", "CSV"}

OrganizationsUrl == "http://events.mobilizeamerica.io/api/v1/organizations"
EventsUrl == "http://events.mobilizeamerica.io/api/v1/events"

\* The date-filter strings a caller passes: None, '' and every text of at
\* most MaxTimeLen characters.
TimeArgs == {None} \cup {Some(s) : s \in SeqsUpTo(TimeChars, MaxTimeLen)}
Dates == {None, Some(<<"d">>)}

\* The values of max_timeslots a caller passes.
MaxTimeslotsArgs == {None} \cup {Some(k) : k \in 1..MaxTimeslots}

\* The flags of get_events_auth that shape its result.
Flags ==
    [timeslots_table : BOOLEAN, unpack_timeslots : BOOLEAN,
     max_timeslots : MaxTimeslotsArgs, output_format : OutputFormats]

DefaultFlags(output_format) ==
    [timeslots_table |-> FALSE, unpack_timeslots |-> TRUE,
     max_timeslots |-> None, output_format |-> output_format]

\* A call without date filters.
NoFilters == [timeslot_start |-> None, timeslot_end |-> None]

\* raise ValueError(f'Invalid output_format (must be one of: {self.output_formats}'):
\* the message is built first, and building it reads self.output_formats.
InvalidOutputFormat ==
    IF "output_formats" \in Attributes
    THEN Raise("ValueError: Invalid output_format")
    ELSE Raise("AttributeError")

\* Entering _request(url, args=a, auth=au, suppress_args_on_paginate=su).
EnterRequest(route, flags, u, a, au, su) ==
    /\ call' = [route |-> route, flags |-> flags, rejected |-> NoFilters, url |-> u,
                args |-> a, auth |-> au, suppress_args_on_paginate |-> su]
    /\ url' = u
    /\ args' = a
    /\ pc' = "request"
    /\ UNCHANGED <<api_key, header, json, requests, responses, outcome>>

\* The call ends with an exception before _request is entered; `rejected`
\* keeps the date filters the failed call was given.
Fail(route, flags, filters, o) ==
    /\ call' = [route |-> route, flags |-> flags, rejected |-> filters, url |-> "",
                args |-> None, auth |-> FALSE, suppress_args_on_paginate |-> FALSE]
    /\ outcome' = o
    /\ pc' = "done"
    /\ UNCHANGED <<api_key, url, args, header, json, requests, responses>>

\* get_organizations(updated_since, output_format), to its call of _request.
get_organizations(updated_since, output_format) ==
    /\ LET flags == DefaultFlags(output_format) IN
       IF output_format \notin valid_output_formats
       THEN Fail("get_organizations", flags, NoFilters, InvalidOutputFormat)
       ELSE LET since == date_to_timestamp(updated_since) IN
            IF ~since.ok
            THEN Fail("get_organizations", flags, NoFilters, Raise(since.exc))
            ELSE EnterRequest("get_organizations", flags, OrganizationsUrl,
                              Some([updated_since |-> since.val]), FALSE, FALSE)

\* get_events_auth(...), to its call of _request.  The arguments that are
\* passed through to the server untouched stay at their default, None.
get_events_auth(timeslot_start, timeslot_end, flags) ==
    /\ LET filters == [timeslot_start |-> timeslot_start, timeslot_end |-> timeslot_end] IN
       IF flags.output_format \notin valid_output_formats
       THEN Fail("get_events_auth", flags, filters, InvalidOutputFormat)
       ELSE LET since == date_to_timestamp(None)
                start == _time_parse(timeslot_start)
                end == _time_parse(timeslot_end)
            IN IF ~since.ok THEN Fail("get_events_auth", flags, filters, Raise(since.exc))
               ELSE IF ~start.ok THEN Fail("get_events_auth", flags, filters, Raise(start.exc))
               ELSE IF ~end.ok THEN Fail("get_events_auth", flags, filters, Raise(end.exc))
               ELSE EnterRequest("get_events_auth", flags, EventsUrl,
                                 Some([organization_id |-> None,
                                       updated_since |-> since.val,
                                       timeslot_start |-> start.val,
                                       timeslot_end |-> end.val,
                                       zipcode |-> None]),
                                 TRUE, TRUE)

----------------------------------------------------------------------------
(* _request *)

\* requests.request(req_type, url, json=post_data, params=args, headers=header)
HttpRequest(u, a, h) == [url |-> u, params |-> a, headers |-> h]

\* MissingKey with the test `self.api_key is None` in place of `not self.api_key`.
MissingKeyTestsNoneOnly(auth, key) == auth /\ IsNone(key)

\* `if auth: if not self.api_key:` the call needs a key and has none.
MissingKey(auth, key) == auth /\ ~Truthy(key)

\* The header _request builds.
Header(auth, key) ==
    IF auth THEN Some([Authorization |-> <<"Bearer ", key[1]>>]) ELSE None

\* extend putting the new page in front of the pages already held.
extendInFront(acc, data) == data \o acc

\* json.extend(data)
extend(acc, data) == acc \o data

\* PaginateArgs without the suppression.
PaginateArgsKept(suppress_args_on_paginate, a) == a

\* `if suppress_args_on_paginate: args=None`
PaginateArgs(suppress_args_on_paginate, a) ==
    IF suppress_args_on_paginate THEN None ELSE a

\* The loop test passing for every `next` but None.
LoopTestNotNone(response) == ~IsNone(response.next)

\* `while r.json()['next']:` the loop goes on while `next` is truthy.
LoopTest(response) == Truthy(response.next)

\* Lines 37-53: the credential check, the first request, the error check
\* and the first page's data.
RequestFirst ==
    /\ pc = "request"
    /\ IF MissingKey(call.auth, api_key)
       THEN /\ outcome' = Raise("TypeError: This method requires an api key.")
            /\ pc' = "done"
            /\ UNCHANGED <<header, json, requests, responses>>
       ELSE LET h == Header(call.auth, api_key) IN
            \E e \in Envelopes(Len(responses) + 1, MaxRecords - Len(json)) :
                /\ header' = h
                /\ requests' = Append(requests, HttpRequest(url, args, h))
                /\ responses' = Append(responses, e)
                /\ IF "error" \in e.keys
                   THEN /\ outcome' = Raise("ValueError: API Error")
                        /\ pc' = "done"
                        /\ UNCHANGED json
                   ELSE /\ json' = e.data
                        /\ pc' = "loop"
                        /\ UNCHANGED outcome
    /\ UNCHANGED <<api_key, call, url, args>>

\* Lines 56-63: one turn of the loop, taken while r.json()['next'] is truthy.
RequestNext ==
    /\ pc = "loop"
    /\ LoopTest(r)
    /\ LET u == r.next[1]
           a == PaginateArgs(call.suppress_args_on_paginate, args)
       IN \E e \in Envelopes(Len(responses) + 1, MaxRecords - Len(json)) :
            /\ url' = u
            /\ args' = a
            /\ requests' = Append(requests, HttpRequest(u, a, header))
            /\ responses' = Append(responses, e)
            /\ IF "data" \notin e.keys
               THEN /\ outcome' = Raise("KeyError: data")
                    /\ pc' = "done"
                    /\ UNCHANGED json
               ELSE IF "next" \notin e.keys
               THEN /\ json' = extend(json, e.data)
                    /\ outcome' = Raise("KeyError: next")
                    /\ pc' = "done"
               ELSE /\ json' = extend(json, e.data)
                    /\ UNCHANGED <<outcome, pc>>
    /\ UNCHANGED <<api_key, call, header>>

\* Lines 56 and 65: `next` is empty or null, _request returns json.
RequestReturn ==
    /\ pc = "loop"
    /\ ~LoopTest(r)
    /\ pc' = "returned"
    /\ UNCHANGED <<api_key, call, url, args, header, json, requests, responses, outcome>>

----------------------------------------------------------------------------
(* The routes, from the return of _request. *)

\* get_organizations, lines 117-123.
OrganizationsResult(json_response, output_format) ==
    IF output_format = "Parsons"
    THEN [kind |-> "table", table |-> Table(json_response)]
    ELSE [kind |-> "list", rows |-> json_response]

\* ListMode with the two tests in the other order.
ListModeUnpackFirst(timeslots_table, unpack_timeslots) ==
    IF unpack_timeslots THEN "inline"
    ELSE IF timeslots_table THEN "explode"
    ELSE "raw"

\* How the timeslots list is handled: `if timeslots_table: ... elif
\* unpack_timeslots: ...`, and neither.
ListMode(timeslots_table, unpack_timeslots) ==
    IF timeslots_table THEN "explode"
    ELSE IF unpack_timeslots THEN "inline"
    ELSE "raw"

\* re.search('timeslots', c, re.IGNORECASE) on a column name.
MatchesTimeslots(c) == c.field = "timeslots"

\* unpack_dict applied to each of the given columns in turn.
RECURSIVE UnpackEach(_, _)
UnpackEach(tbl, columns) ==
    IF columns = {} THEN tbl
    ELSE LET c == CHOOSE x \in columns : TRUE
         IN UnpackEach(unpack_dict(tbl, c, TRUE), columns \ {c})

\* Lines 346-350: the list unpacked into columns, each of them lifted.
UnpackTimeslots(tbl, max_timeslots) ==
    LET unpacked == unpack_list(tbl, Name("timeslots"), max_timeslots)
    IN UnpackEach(unpacked, {c \in unpacked.cols : MatchesTimeslots(c)})

\* Lines 352-373: the table itself, or its rows read back from a CSV file.
Formatted(tbl, output_format) ==
    IF output_format = "Parsons"
    THEN [kind |-> "table", table |-> tbl]
    ELSE [kind |-> "json", rows |-> CsvToJson(tbl)]

\* The lift of `location` with the default prepend=True.
LiftLocationPrepended(tbl) == unpack_dict(tbl, Name("location"), TRUE)

\* tbl.unpack_dict('location', prepend=False)
LiftLocation(tbl) == unpack_dict(tbl, Name("location"), FALSE)

\* get_events_auth, lines 331-373.
EventsResult(json_response, flags) ==
    LET tbl == Table(json_response) IN
    IF num_rows(tbl) > 0
    THEN LET sponsored == unpack_dict(tbl, Name("sponsor"), TRUE)
             located == LiftLocation(sponsored)
             again == LiftLocation(located)
             joined == ConvertJoin(again, Name("address_lines"))
             mode == ListMode(flags.timeslots_table, flags.unpack_timeslots)
         IN IF mode = "explode"
            THEN LET long == long_table(joined, Name("id"), Name("timeslots"), Name("event_id"))
                 IN [kind |-> "pair", events |-> long.parent, timeslots |-> long.child]
            ELSE IF mode = "inline"
            THEN Formatted(UnpackTimeslots(joined, flags.max_timeslots), flags.output_format)
            ELSE Formatted(joined, flags.output_format)
    ELSE Formatted(tbl, flags.output_format)

\* The route goes on with what _request returned and returns its result.
Finish ==
    /\ pc = "returned"
    /\ outcome' = Return(IF call.route = "get_organizations"
                         THEN OrganizationsResult(json, call.flags.output_format)
                         ELSE EventsResult(json, call.flags))
    /\ pc' = "done"
    /\ UNCHANGED <<api_key, call, url, args, header, json, requests, responses>>

\* A caller calls get_organizations on the fresh client.
CallGetOrganizations ==
    /\ pc = "idle"
    /\ \E d \in Dates, f \in OutputFormats : get_organizations(d, f)

\* A caller calls get_events_auth on the fresh client.  The calls explored
\* are those that set a date filter on timeslot_start or on timeslot_end and
\* leave the flags that shape the result at their defaults, and those that
\* set these flags and no date filter.
CallGetEventsAuth ==
    /\ pc = "idle"
    /\ \/ \E s \in TimeArgs :
            get_events_auth(s, None, DefaultFlags("Parsons"))
       \/ \E e \in TimeArgs :
            get_events_auth(None, e, DefaultFlags("Parsons"))
       \/ \E flags \in Flags :
            get_events_auth(None, None, flags)

Next ==
    \/ CallGetOrganizations
    \/ CallGetEventsAuth
    \/ RequestFirst
    \/ RequestNext
    \/ RequestReturn
    \/ Finish

Spec == Init /\ [][Next]_vars

\* A caller calls either route with its default arguments.
CallWithDefaults ==
    /\ pc = "idle"
    /\ \/ get_organizations(None, "Parsons")
       \/ get_events_auth(None, None, DefaultFlags("Parsons"))

LiveNext ==
    \/ CallWithDefaults
    \/ RequestFirst
    \/ RequestNext
    \/ RequestReturn
    \/ Finish

\* _request runs on one thread and every request it issues is answered, so
\* a step of _request that can be taken is taken.
LiveSpec ==
    /\ Init /\ [][LiveNext]_vars
    /\ WF_vars(RequestFirst)
    /\ WF_vars(RequestNext)
    /\ WF_vars(RequestReturn)

----------------------------------------------------------------------------
(* Lines 335-337 on their own: the two lifts of `location`, one after the   *)
(* other, on fetched events whose location takes every shape below.  `json` *)
(* holds the fetched events and `outcome` the table after one lift and      *)
(* after two.                                                               *)

FlatLocation == Event(0).location.v

\* The shapes of the `location` of an event: null, an object of plain
\* fields, and an object that has itself a child named `location` (an
\* object, null, or an object with a key its parent has too).
Locations ==
    <<JNull,
     JDict(FlatLocation),
     JDict([city |-> FlatLocation.city, zip |-> FlatLocation.zip,
            address_lines |-> FlatLocation.address_lines,
            location |-> JDict([latitude |-> JInt(1), longitude |-> JInt(2)])]),
     JDict([city |-> FlatLocation.city, zip |-> FlatLocation.zip,
            address_lines |-> FlatLocation.address_lines,
            location |-> JNull]),
     JDict([city |-> FlatLocation.city, zip |-> FlatLocation.zip,
            address_lines |-> FlatLocation.address_lines,
            location |-> JDict([city |-> JStr("Z")])])>>

\* The event with n timeslots and the k-th of these locations.
LiftEvent(n, k) == [Event(n) EXCEPT !.location = Locations[k]]

\* The fetched events, each named by its timeslots and its location.
LiftRecords == {0, 1} \X (1..Len(Locations))

\* Line 333 is passed: events were fetched.
LiftInit ==
    /\ api_key = Some("key")
    /\ pc = "fetched"
    /\ call = NoCall
    /\ url = ""
    /\ args = None
    /\ header = None
    /\ \E picked \in SeqsUpTo(LiftRecords, MaxRecords) \ {<<>>} :
            json = [i \in 1..Len(picked) |-> LiftEvent(picked[i][1], picked[i][2])]
    /\ requests = <<>>
    /\ responses = <<>>
    /\ outcome = NoOutcome

\* Lines 331-336: the table, the lift of sponsor and the first lift of location.
LiftOnce ==
    /\ pc = "fetched"
    /\ outcome' = [kind |-> "lifted",
                   once |-> LiftLocation(unpack_dict(Table(json), Name("sponsor"), TRUE))]
    /\ pc' = "lifted once"
    /\ UNCHANGED <<api_key, call, url, args, header, json, requests, responses>>

\* Line 337: the second lift of location.
LiftAgain ==
    /\ pc = "lifted once"
    /\ outcome' = [kind |-> "lifted", once |-> outcome.once,
                   twice |-> LiftLocation(outcome.once)]
    /\ pc' = "lifted twice"
    /\ UNCHANGED <<api_key, call, url, args, header, json, requests, responses>>

LiftNext ==
    \/ LiftOnce
    \/ LiftAgain

LiftSpec == LiftInit /\ [][LiftNext]_vars

----------------------------------------------------------------------------
(* What the properties below speak of. *)

Returned == outcome.kind = "return"
Raised(exc) == outcome = Raise(exc)

\* No envelope received so far has an `error` key.
NoErrorKey == \A i \in 1..Len(responses) : "error" \notin responses[i].keys

\* The data of the pages received, page by page.
PagesData == [i \in 1..Len(responses) |-> responses[i].data]

\* get_events_auth has returned a value.
EventsReturned == call.route = "get_events_auth" /\ Returned

\* The columns of the table of a result: of the parent table of a pair, of
\* the single table, or the keys of the objects of a JSON array.
MainCols(v) ==
    IF v.kind = "pair" THEN v.events.cols
    ELSE IF v.kind = "table" THEN v.table.cols
    ELSE IF v.rows = <<>> THEN {} ELSE DOMAIN v.rows[1]

\* The positions of the timeslots list that have a column in a result.
TimeslotPositions(v) ==
    {c.pos[1] : c \in {x \in MainCols(v) : x.field = "timeslots" /\ ~IsNone(x.pos)}}

\* How a result shows the timeslots list to have been handled.
ObservedMode(v) ==
    IF v.kind = "pair"
    THEN (IF TimeslotPositions(v) # {} \/ Name("timeslots") \in MainCols(v)
          THEN "both" ELSE "explode")
    ELSE IF Name("timeslots") \in MainCols(v) THEN "raw"
    ELSE "inline"

\* The number of timeslots of all the fetched events together.
RECURSIVE TimeslotCount(_)
TimeslotCount(records) ==
    IF records = <<>> THEN 0
    ELSE Len(Head(records).timeslots.v) + TimeslotCount(Tail(records))

----------------------------------------------------------------------------
(* C1: when no page received carries an `error` key, _request returns       *)
(* exactly the data of page 1, then of page 2, ... up to the last page, in  *)
(* page order and in-page order, nothing dropped and nothing twice; and it  *)
(* does return: the call never ends in an exception after such pages.       *)
C1_Concatenation ==
    (pc \in {"returned", "done"} /\ Len(responses) >= 1 /\ NoErrorKey)
        => /\ outcome.kind # "raise"
           /\ json = Concat(PagesData)
           /\ \A i \in 1..Len(responses) : Truthy(responses[i].next) <=> i < Len(responses)

\* Three pages were fetched, the first and the last with different records.
C1_Witness ==
    /\ pc = "returned"
    /\ NoErrorKey
    /\ Len(responses) = 3
    /\ Len(responses[1].data) = 1
    /\ Len(responses[3].data) = 1
    /\ responses[1].data # responses[3].data

(* C2: a page with an `error` key, the first or a later one, ends the fetch *)
(* with the API error: it is the last page requested and the call raises    *)
(* the API error, whatever the pages before it held.                        *)
C2_ErrorAbortsOnAnyPage ==
    \A i \in 1..Len(responses) :
        "error" \in responses[i].keys
            => /\ i = Len(responses)
               /\ pc = "done"
               /\ Raised("ValueError: API Error")

(* C3: when _request is entered with auth=True (as get_events_auth always   *)
(* enters it) and the client has no API key (neither the constructor        *)
(* argument nor the environment gave one), the call ends with the           *)
(* 'requires an api key' error and no HTTP request was issued.              *)
C3_NoKeyNoRequest ==
    /\ (pc \notin {"idle", "request"} /\ call.auth /\ ~Truthy(api_key))
            => /\ pc = "done"
               /\ Raised("TypeError: This method requires an api key.")
               /\ requests = <<>>
    /\ (call.route = "get_events_auth" /\ pc \notin {"idle", "done"}) => call.auth

\* get_events_auth was called on a client without a key and has failed.
C3_Witness ==
    /\ pc = "done"
    /\ call.route = "get_events_auth"
    /\ call.auth
    /\ IsNone(api_key)
    /\ outcome.kind = "raise"

\* A date-filter text that is a date and nothing else: no operator at all.
IsBareDate(text) ==
    /\ TruthyText(text)
    /\ \A i \in 1..Len(text[1]) : text[1][i] = "d"

(* C4: a call of get_events_auth with a valid output_format and a non-empty *)
(* date filter whose comparison operator is not one of >=, >, <=, < (here:  *)
(* a date with no operator at all) ends with the 'Invalid time operator'    *)
(* validation error, and no HTTP request was issued.                        *)
C4_InvalidOperatorIsValidationError ==
    (/\ pc = "done"
     /\ call.route = "get_events_auth"
     /\ call.flags.output_format \in {"Parsons", "JSON"}
     /\ \/ IsBareDate(call.rejected.timeslot_start)
        \/ IsBareDate(call.rejected.timeslot_end))
        => /\ Raised("ValueError: Invalid time operator")
           /\ requests = <<>>

(* C5: a call of get_organizations or get_events_auth with an output_format *)
(* other than 'Parsons' and 'JSON' ends with the ValueError 'Invalid        *)
(* output_format', and no HTTP request was issued.                          *)
C5_InvalidFormatIsValueError ==
    (pc = "done" /\ call.flags.output_format \notin {"Parsons", "JSON"})
        => /\ Raised("ValueError: Invalid output_format")
           /\ requests = <<>>

(* C6: whenever get_events_auth returns with output_format='JSON', what it  *)
(* returns is a JSON array of objects, one per row, whatever the other      *)
(* flags are and whether or not events were fetched.                        *)
C6_JsonFormatGivesJsonArray ==
    (EventsReturned /\ call.flags.output_format = "JSON")
        => /\ outcome.value.kind = "json"
           /\ Len(outcome.value.rows) = Len(json)

(* C7: the shape of what get_events_auth returns follows timeslots_table    *)
(* alone: a pair {events, timeslots} when it is set and a single table (or  *)
(* its JSON array) when it is not, also when no event was fetched.          *)
C7_ShapeFollowsTimeslotsTable ==
    EventsReturned => (outcome.value.kind = "pair" <=> call.flags.timeslots_table)

(* C8: when get_events_auth unpacks the timeslots inline (timeslots_table   *)
(* off, unpack_timeslots on, events fetched) with max_timeslots = k, the    *)
(* positions of the list that have columns in the result are exactly        *)
(* 0..k-1, whatever the lengths of the lists are.                           *)
C8_StaticTimeslotColumns ==
    (/\ EventsReturned
     /\ Len(json) > 0
     /\ ~call.flags.timeslots_table
     /\ call.flags.unpack_timeslots
     /\ ~IsNone(call.flags.max_timeslots))
        => TimeslotPositions(outcome.value) = 0..(call.flags.max_timeslots[1] - 1)

C10_RequestsFollowNext ==
    \A i \in 1..Len(requests) :
        IF i = 1
        THEN /\ requests[i].url = call.url
             /\ requests[i].params = call.args
        ELSE /\ requests[i].url = responses[i - 1].next[1]
             /\ requests[i].params =
                    (IF call.suppress_args_on_paginate THEN None ELSE call.args)

\* Three requests were issued by a call that suppresses its parameters.
C10_Witness ==
    /\ Len(requests) = 3
    /\ call.suppress_args_on_paginate
    /\ ~IsNone(call.args)
    /\ requests[3].url = "cursor2"

\* A `next` that is empty or null.
EmptyOrNull(next) == next \in {None, Some("")}

(* C11: once _request is entered it comes to an end, and when no page       *)
(* received carries an `error` key it ends by returning; it has then        *)
(* stopped at the first response whose `next` is empty or null; every       *)
(* request is answered before the following one is issued, so there is one  *)
(* request per page received; and no request is issued after the return.    *)
C11_ReturnsAfterOneRequestPerPage ==
    /\ (pc = "request") ~> (pc \in {"returned", "done"})
    /\ []((pc \in {"returned", "done"} /\ Len(responses) >= 1 /\ NoErrorKey)
            => /\ outcome.kind # "raise"
               /\ \A i \in 1..Len(responses) :
                    EmptyOrNull(responses[i].next) <=> i = Len(responses))
    /\ [](Len(requests) = Len(responses))
    /\ [][(pc \in {"returned", "done"}) => (requests' = requests)]_vars

\* _request has returned after three pages, the last with an empty `next`.
C11_Witness ==
    /\ pc = "returned"
    /\ NoErrorKey
    /\ Len(requests) = 3
    /\ responses[3].next = Some("")
    /\ Len(json) = MaxRecords

\* Some fetched event has a location with a child itself named `location`.
NestedLocation ==
    \E i \in 1..Len(json) :
        /\ json[i].location.t = "dict"
        /\ "location" \in DOMAIN json[i].location.v

====
